---- MODULE Spec2Model ----
(***************************************************************************)
(* The sync dispatcher of go-filecoin (src/syncer/dispatcher.go): the      *)
(* TargetQueue (a deduplicated max-heap of SyncRequests on top of Go's     *)
(* container/heap) and the Dispatcher loop that feeds it from the          *)
(* production channel and hands one request at a time to the syncer.       *)
(*                                                                         *)
(* The specifications share the variables:                                 *)
(*   SpecQ     a TargetQueue driven directly by Push and Pop calls, as     *)
(*             src/syncer/dispatcher_test.go drives it;                    *)
(*   Spec      the Dispatcher: producers, control senders, cancellation,   *)
(*             the syncer and the loop goroutine of Dispatcher.Start       *)
(*             (SpecFair: with a fairly scheduled loop);                   *)
(*   SpecHand  producers and cancellation only (SpecLive: fair);           *)
(*   SpecCtl   control messages of known and unknown type;                 *)
(*   SpecBP    more enqueue calls than production holds (SpecBPLive);      *)
(*   SpecNest  callbacks that register callbacks (SpecNestLive);           *)
(*   SpecStop  the callers after the loop has returned on cancellation.    *)
(*                                                                         *)
(* SyncRequest.index is left out of the records: rawQueue.Push, Swap and   *)
(* Pop write it and nothing in the package reads it.                       *)
(***************************************************************************)
EXTENDS Integers, Sequences, FiniteSets, TLC

VARIABLES
    targetQ,              \* Dispatcher.targetQ: [q: rawQueue, targetSet: set of strings]
    production,           \* Dispatcher.production: the channel's buffer, FIFO
    sendq,                \* requests of the senders parked on the full production channel, FIFO
    control,              \* Dispatcher.control: senders parked on the unbuffered channel, FIFO
    onProcessedCountCbs,  \* Dispatcher.onProcessedCountCbs
    syncReqCount,         \* Dispatcher.syncReqCount
    cancelled,            \* syncingCtx is Done
    pc,                   \* the loop goroutine's position in Dispatcher.Start
    last,                 \* Start's local `last` (Nil or Ref of a request)
    produced,             \* Start's local `produced`
    drainN,               \* drainProduced's n
    drainI,               \* drainProduced's i
    syncReq,              \* Start's local syncReq (result of targetQ.Pop)
    panicked,             \* a Go runtime panic was raised
    \* ---- history (not program state) ----
    budget,               \* the calls the callers have still to make: enq enqueue calls, ctl sends on control
    enqueued,             \* number of completed enqueue calls
    enqReturns,           \* the values returned by the completed enqueue calls
    enqCount,             \* request -> number of enqueue calls made with it
    err,                  \* what the last returned HandleNewTipSet returned ("none" before any)
    cancelSnap,           \* Ref of what the loop had done when syncingCtx was cancelled during a HandleNewTipSet, else Nil
    ignored,              \* number of control messages receiveCtrl did not know
    registered,           \* number of sends on control begun (RegisterOnProcessedCount calls and others)
    regLog,               \* cb id -> [n, at]: the count asked for, syncReqCount on receipt
    fireLog,              \* sequence of [cb, at]: callback invocations, syncReqCount at each
    pops,                 \* requests popped by the loop, in order
    calls,                \* HandleNewTipSet invocations [req, isCatchUp], in order
    inProgress,           \* HandleNewTipSet invocations started and not yet returned
    wake,                 \* the request received by the idle wait that started this cycle, or Nil
    callStart,            \* Ref of [enqueued, buffered] when the HandleNewTipSet in progress was called, else Nil
    reenters,             \* the callbacks whose func calls d.RegisterOnProcessedCount
    dropped,              \* request -> number of Push calls that dropped it as a duplicate of a resident Head
    stopSnap,             \* Ref of [enqueued, buffered, parked, calls, registered, waiting] when the loop returned on cancellation, else Nil
    cbSend,               \* Ref of [cb, i]: the send on control the loop goroutine is making from inside callback i of maybeFireCbs, else Nil
    \* ---- the TargetQueue driver of SpecQ ----
    pushedReqs,           \* arguments of the Push calls of the current run of pushes
    poppedReqs,           \* results of the Pop calls since the last Push
    freshRun,             \* the queue was empty when the current run of pushes began
    lastOp                \* the last driver call: [op, req, ok, before]

vars == << targetQ, production, sendq, control, onProcessedCountCbs, syncReqCount,
           cancelled, pc, last, produced, drainN, drainI, syncReq, panicked,
           budget, enqueued, enqReturns, enqCount, err, cancelSnap, ignored,
           registered, regLog, fireLog, pops, calls, inProgress, wake,
           callStart, reenters, cbSend, dropped, stopSnap, pushedReqs, poppedReqs, freshRun, lastOp >>

dispVars == << production, sendq, control, onProcessedCountCbs, syncReqCount,
               cancelled, pc, last, produced, drainN, drainI, syncReq,
               budget, enqueued, enqReturns, enqCount, err, cancelSnap, ignored,
               registered, regLog, fireLog, pops, calls, inProgress, wake,
               callStart, reenters, cbSend, dropped, stopSnap >>

cbVars == << reenters, cbSend >>

driverVars == << pushedReqs, poppedReqs, freshRun, lastOp >>

-----------------------------------------------------------------------------
(* Bounds of the model *)

\* Push calls in one run of pushes of the TargetQueue driver
MaxPush == 4

\* Enqueue calls (ReceiveHello, ReceiveOwnBlock, ReceiveGossipBlock) in a run
MaxEnqueue == 2

\* RegisterOnProcessedCount calls in a run
MaxRegister == 1

\* Sends on the control channel (RegisterOnProcessedCount calls and others)
\* in a run of SpecCtl
MaxControl == 2

\* The greatest count passed to RegisterOnProcessedCount
MaxCount == 1

\* Enqueue calls beyond the capacity of the production channel in a run of
\* SpecBP
MaxExcess == 1

\* const productionBufferSize
productionBufferSize == 5

-----------------------------------------------------------------------------
(* Values *)

\* A Go pointer: nil, or the address of a value
Nil == << >>
Ref(x) == << x >>
Deref(p) == p[1]

\* block.ChainInfo as far as the dispatcher reads it: Head (a TipSetKey, here
\* the number of a CID, 0 for the empty key) and Height
ChainInfo(head, height) == [Head |-> head, Height |-> height]

\* SyncRequest{ChainInfo: ci}
SyncRequest(ci) == [Head |-> ci.Head, Height |-> ci.Height]

\* SyncRequest{}: the zero value
ZeroRequest == [Head |-> 0, Height |-> 0]

\* The chain infos producers announce: the heights of TestQueueHappy
\* (2, 47, 0, 1) under four heads, and head 1 announced again at height 47
\* (a second announcement of a resident Head, and a tie with head 2)
ChainInfos ==
    { ChainInfo(1, 2), ChainInfo(2, 47), ChainInfo(3, 0), ChainInfo(4, 1),
      ChainInfo(1, 47) }

\* The chain infos announced to the Dispatcher: two heads, head 1 at two
\* heights, and a tie between the heads
Announced == { ChainInfo(1, 2), ChainInfo(2, 47), ChainInfo(1, 47) }

\* The chain infos announced in SpecBP
Flood == { ChainInfo(1, 2), ChainInfo(2, 47) }

\* The SyncRequests made of them
Requests == { SyncRequest(ci) : ci \in ChainInfos }

\* TipSetKey.String(): the key under which targetSet holds a Head
HeadString(head) == ToString(head)

Range(s) == { s[i] : i \in 1..Len(s) }

-----------------------------------------------------------------------------
(* rawQueue and container/heap.  Indices are Go's, from 0. *)

At(rq, i) == rq[i + 1]

\* rawQueue.Less: greater Height first
LessFlipped(rq, i, j) == At(rq, i).Height < At(rq, j).Height
Less(rq, i, j) == At(rq, i).Height > At(rq, j).Height

\* rawQueue.Swap
Swap(rq, i, j) == [rq EXCEPT ![i + 1] = rq[j + 1], ![j + 1] = rq[i + 1]]

\* Go's integer division truncates towards zero
GoDiv(a, b) == IF a >= 0 THEN a \div b ELSE -((-a) \div b)

upNever(rq, j) == rq

\* heap.up
RECURSIVE up(_, _)
up(rq, j) ==
    LET i == GoDiv(j - 1, 2)
    IN  IF i = j \/ ~Less(rq, j, i) THEN rq ELSE up(Swap(rq, i, j), i)

\* heap.down
RECURSIVE downLeftOnly(_, _, _)
downLeftOnly(rq, i, n) ==
    LET j1 == 2 * i + 1
    IN  IF j1 >= n \/ j1 < 0 THEN rq
        ELSE IF ~Less(rq, j1, i) THEN rq
        ELSE downLeftOnly(Swap(rq, i, j1), j1, n)
RECURSIVE down(_, _, _)
down(rq, i, n) ==
    LET j1 == 2 * i + 1
        j2 == j1 + 1
        j  == IF j1 < n /\ j2 < n /\ Less(rq, j2, j1) THEN j2 ELSE j1
    IN  IF j1 >= n \/ j1 < 0 THEN rq
        ELSE IF ~Less(rq, j, i) THEN rq
        ELSE down(Swap(rq, i, j), j, n)

\* heap.Push(&rq, x): rawQueue.Push appends, then up
heapPush(rq, x) == up(Append(rq, x), Len(rq))

\* heap.Pop(&rq): Swap(0, n), down(0, n), then rawQueue.Pop takes the last
\* element.  On an empty rawQueue Swap(0, -1) indexes out of range: a panic.
heapPop(rq) ==
    IF Len(rq) = 0
    THEN [item |-> ZeroRequest, rq |-> rq, panic |-> TRUE]
    ELSE LET n == Len(rq) - 1
             d == down(Swap(rq, 0, n), 0, n)
         IN  [item |-> d[n + 1], rq |-> SubSeq(d, 1, n), panic |-> FALSE]

-----------------------------------------------------------------------------
(* TargetQueue *)

\* NewTargetQueue
NewTargetQueue == [q |-> << >>, targetSet |-> {}]

\* TargetQueue.Len
TQLen(tq) == Len(tq.q)

\* TargetQueue.Push
TQPushNoDedup(tq, req) ==
    [q |-> heapPush(tq.q, req),
     targetSet |-> tq.targetSet \cup {HeadString(req.Head)}]
TQPush(tq, req) ==
    IF HeadString(req.Head) \in tq.targetSet
    THEN tq
    ELSE [q |-> heapPush(tq.q, req),
          targetSet |-> tq.targetSet \cup {HeadString(req.Head)}]

\* TargetQueue.Pop: [req, ok, tq, panic]
TQPopUnguarded(tq) ==
    LET p == heapPop(tq.q)
    IN  [req |-> p.item, ok |-> TRUE, panic |-> p.panic,
         tq |-> [q |-> p.rq,
                 targetSet |-> tq.targetSet \ {HeadString(p.item.Head)}]]
TQPopNoDelete(tq) ==
    IF TQLen(tq) = 0
    THEN [req |-> ZeroRequest, ok |-> FALSE, panic |-> FALSE, tq |-> tq]
    ELSE LET p == heapPop(tq.q)
         IN  [req |-> p.item, ok |-> TRUE, panic |-> p.panic,
              tq |-> [q |-> p.rq, targetSet |-> tq.targetSet]]
TQPop(tq) ==
    IF TQLen(tq) = 0
    THEN [req |-> ZeroRequest, ok |-> FALSE, panic |-> FALSE, tq |-> tq]
    ELSE LET p == heapPop(tq.q)
         IN  [req |-> p.item, ok |-> TRUE, panic |-> p.panic,
              tq |-> [q |-> p.rq,
                      targetSet |-> tq.targetSet \ {HeadString(p.item.Head)}]]

-----------------------------------------------------------------------------
(* The state after NewDispatcher, before Start *)

\* NewDispatcher's state, with the numbers of enqueue calls and of sends on
\* control the run will make
NewDispatcher(calls_, sends_) ==
    /\ targetQ = NewTargetQueue
    /\ production = << >>
    /\ sendq = << >>
    /\ control = << >>
    /\ onProcessedCountCbs = << >>
    /\ syncReqCount = 0
    /\ cancelled = FALSE
    /\ pc = "new"
    /\ last = Nil
    /\ produced = << >>
    /\ drainN = 0
    /\ drainI = 0
    /\ syncReq = ZeroRequest
    /\ panicked = FALSE
    /\ budget = [enq |-> calls_, ctl |-> sends_]
    /\ enqueued = 0
    /\ enqReturns = {}
    /\ enqCount = [r \in Requests |-> 0]
    /\ err = "none"
    /\ cancelSnap = Nil
    /\ ignored = 0
    /\ registered = 0
    /\ regLog = << >>
    /\ fireLog = << >>
    /\ pops = << >>
    /\ calls = << >>
    /\ inProgress = 0
    /\ wake = Nil
    /\ callStart = Nil
    /\ reenters = {}
    /\ cbSend = Nil
    /\ dropped = [r \in Requests |-> 0]
    /\ stopSnap = Nil
    /\ pushedReqs = << >>
    /\ poppedReqs = << >>
    /\ freshRun = TRUE
    /\ lastOp = [op |-> "New", req |-> ZeroRequest, ok |-> TRUE,
                 before |-> NewTargetQueue]

Init == NewDispatcher(MaxEnqueue, MaxRegister)

-----------------------------------------------------------------------------
(* SpecQ: a TargetQueue under direct Push and Pop calls *)

\* testQ.Push(req).  A Push that follows a Pop begins a new run of pushes.
QPush(req) ==
    LET newRun == poppedReqs # << >>
    IN  /\ ~panicked
        /\ newRun \/ Len(pushedReqs) < MaxPush
        /\ targetQ' = TQPush(targetQ, req)
        /\ pushedReqs' = IF newRun THEN << req >> ELSE Append(pushedReqs, req)
        /\ freshRun' = IF newRun THEN TQLen(targetQ) = 0 ELSE freshRun
        /\ poppedReqs' = << >>
        /\ lastOp' = [op |-> "Push", req |-> req, ok |-> TRUE, before |-> targetQ]
        /\ UNCHANGED panicked
        /\ UNCHANGED dispVars

\* testQ.Pop()
QPop ==
    LET p == TQPop(targetQ)
    IN  /\ ~panicked
        /\ targetQ' = p.tq
        /\ panicked' = p.panic
        /\ poppedReqs' = IF p.ok THEN Append(poppedReqs, p.req) ELSE poppedReqs
        /\ lastOp' = [op |-> "Pop", req |-> p.req, ok |-> p.ok, before |-> targetQ]
        /\ UNCHANGED << pushedReqs, freshRun >>
        /\ UNCHANGED dispVars

QNext ==
    \/ \E ci \in ChainInfos : QPush(SyncRequest(ci))
    \/ QPop

SpecQ == Init /\ [][QNext]_vars

-----------------------------------------------------------------------------
(* Dispatcher: the calls other goroutines make *)

RecvProductionNoWake ==
    /\ production # << >>
    /\ production' = Tail(production)
    /\ UNCHANGED << sendq, enqueued, enqReturns >>

\* A receive from the production channel that finds a value: the head of the
\* buffer; a sender parked on the full channel puts its value at the tail in
\* the same step and its send (and the enqueue call, returning nil) completes.
RecvProduction ==
    /\ production # << >>
    /\ IF sendq # << >>
       THEN /\ production' = Append(Tail(production), Head(sendq))
            /\ sendq' = Tail(sendq)
            /\ enqueued' = enqueued + 1
            /\ enqReturns' = enqReturns \cup {"nil"}
       ELSE /\ production' = Tail(production)
            /\ UNCHANGED << sendq, enqueued, enqReturns >>

receivePreempts(ci) ==
    /\ budget.enq > 0
    /\ budget' = [budget EXCEPT !.enq = @ - 1]
    /\ enqCount' = [enqCount EXCEPT ![SyncRequest(ci)] = @ + 1]
    /\ enqueued' = enqueued + 1
    /\ enqReturns' = enqReturns \cup {"nil"}
    /\ IF pc = "syncing"
       THEN /\ targetQ' = TQPush(targetQ, SyncRequest(ci))
            /\ UNCHANGED production
       ELSE /\ production' = Append(production, SyncRequest(ci))
            /\ UNCHANGED targetQ
    /\ UNCHANGED << sendq, control, onProcessedCountCbs, syncReqCount, cancelled,
                    pc, last, produced, drainN, drainI, syncReq, panicked,
                    registered, regLog, fireLog, pops, calls, inProgress, wake >>
    /\ UNCHANGED << driverVars, stopSnap, cbVars, dropped, callStart, err, cancelSnap, ignored >>

receiveDropWhenFull(ci) ==
    /\ budget.enq > 0
    /\ budget' = [budget EXCEPT !.enq = @ - 1]
    /\ enqCount' = [enqCount EXCEPT ![SyncRequest(ci)] = @ + 1]
    /\ enqueued' = enqueued + 1
    /\ UNCHANGED sendq
    /\ IF Len(production) < productionBufferSize
       THEN /\ production' = Append(production, SyncRequest(ci))
            /\ enqReturns' = enqReturns \cup {"nil"}
       ELSE /\ enqReturns' = enqReturns \cup {"error"}
            /\ UNCHANGED production
    /\ UNCHANGED << targetQ, control, onProcessedCountCbs, syncReqCount, cancelled,
                    pc, last, produced, drainN, drainI, syncReq, panicked,
                    registered, regLog, fireLog, pops, calls, inProgress, wake >>
    /\ UNCHANGED << driverVars, stopSnap, cbVars, dropped, callStart, err, cancelSnap, ignored >>

\* Dispatcher.receive: d.production <- SyncRequest{ChainInfo: *ci}; return nil.
\* The send completes at once when the buffer has room; on a full buffer the
\* caller parks until a receive makes room.
receive(ci) ==
    /\ budget.enq > 0
    /\ budget' = [budget EXCEPT !.enq = @ - 1]
    /\ enqCount' = [enqCount EXCEPT ![SyncRequest(ci)] = @ + 1]
    /\ IF Len(production) < productionBufferSize
       THEN /\ production' = Append(production, SyncRequest(ci))
            /\ enqueued' = enqueued + 1
            /\ enqReturns' = enqReturns \cup {"nil"}
            /\ UNCHANGED sendq
       ELSE /\ sendq' = Append(sendq, SyncRequest(ci))
            /\ UNCHANGED << production, enqueued, enqReturns >>
    /\ UNCHANGED << targetQ, control, onProcessedCountCbs, syncReqCount, cancelled,
                    pc, last, produced, drainN, drainI, syncReq, panicked,
                    registered, regLog, fireLog, pops, calls, inProgress, wake >>
    /\ UNCHANGED << driverVars, stopSnap, cbVars, dropped, callStart, err, cancelSnap, ignored >>

ReceiveHello(ci) == receive(ci)

ReceiveOwnBlock(ci) == receive(ci)

ReceiveGossipBlock(ci) == receive(ci)

RegisterDirect(count) ==
    /\ budget.ctl > 0
    /\ budget' = [budget EXCEPT !.ctl = @ - 1]
    /\ registered' = registered + 1
    /\ onProcessedCountCbs' =
           Append(onProcessedCountCbs,
                  [cb |-> registered + 1, n |-> count, start |-> syncReqCount])
    /\ regLog' = ((registered + 1) :> [n |-> count, at |-> syncReqCount]) @@ regLog
    /\ UNCHANGED << targetQ, production, control, syncReqCount, cancelled,
                    pc, last, produced, drainN, drainI, syncReq, panicked,
                    enqueued, fireLog, pops, calls, inProgress, wake >>
    /\ UNCHANGED << driverVars, stopSnap, cbVars, dropped, callStart, sendq, enqReturns, enqCount, err, cancelSnap, ignored >>

\* Dispatcher.RegisterOnProcessedCount: d.control <- onProcessedCountCb{n, cb}.
\* control is unbuffered: the caller parks until the loop receives.  The
\* callback is named by the number of the call.
RegisterOnProcessedCount(count) ==
    /\ budget.ctl > 0
    /\ budget' = [budget EXCEPT !.ctl = @ - 1]
    /\ registered' = registered + 1
    /\ control' = Append(control, [type |-> "onProcessedCountCb",
                                   cb |-> registered + 1, n |-> count, start |-> 0])
    /\ UNCHANGED << targetQ, production, onProcessedCountCbs, syncReqCount, cancelled,
                    pc, last, produced, drainN, drainI, syncReq, panicked,
                    enqueued, regLog, fireLog, pops, calls, inProgress, wake >>
    /\ UNCHANGED << driverVars, stopSnap, cbVars, dropped, callStart, sendq, enqReturns, enqCount, err, cancelSnap, ignored >>

\* RegisterOnProcessedCount(count, cb) with a cb that calls
\* d.RegisterOnProcessedCount itself
RegisterReentrantCb(count) ==
    /\ budget.ctl > 0
    /\ budget' = [budget EXCEPT !.ctl = @ - 1]
    /\ registered' = registered + 1
    /\ reenters' = reenters \cup {registered + 1}
    /\ control' = Append(control, [type |-> "onProcessedCountCb",
                                   cb |-> registered + 1, n |-> count, start |-> 0])
    /\ UNCHANGED << targetQ, production, onProcessedCountCbs, syncReqCount, cancelled,
                    pc, last, produced, drainN, drainI, syncReq, panicked,
                    enqueued, regLog, fireLog, pops, calls, inProgress, wake >>
    /\ UNCHANGED << driverVars, stopSnap, cbSend, dropped, callStart, sendq, enqReturns, enqCount, err, cancelSnap, ignored >>

\* d.control <- x for an x that is no onProcessedCountCb: control is a
\* chan interface{} and takes a value of any type
SendUnknownControl ==
    /\ budget.ctl > 0
    /\ budget' = [budget EXCEPT !.ctl = @ - 1]
    /\ registered' = registered + 1
    /\ control' = Append(control, [type |-> "unknown", cb |-> 0, n |-> 0, start |-> 0])
    /\ UNCHANGED << targetQ, production, onProcessedCountCbs, syncReqCount, cancelled,
                    pc, last, produced, drainN, drainI, syncReq, panicked,
                    enqueued, regLog, fireLog, pops, calls, inProgress, wake >>
    /\ UNCHANGED << driverVars, stopSnap, cbVars, dropped, callStart, sendq, enqReturns, enqCount, err, cancelSnap, ignored >>

\* syncingCtx is cancelled
Cancel ==
    /\ ~cancelled
    /\ cancelled' = TRUE
    /\ cancelSnap' = IF pc = "syncing"
                     THEN Ref([pops |-> Len(pops), calls |-> Len(calls),
                               fires |-> Len(fireLog), count |-> syncReqCount])
                     ELSE Nil
    /\ UNCHANGED << targetQ, production, control, onProcessedCountCbs, syncReqCount,
                    pc, last, produced, drainN, drainI, syncReq, panicked,
                    enqueued, registered, regLog, fireLog, pops, calls, inProgress,
                    wake >>
    /\ UNCHANGED << driverVars, stopSnap, cbVars, dropped, callStart, sendq, budget, enqReturns, enqCount, err, ignored >>

-----------------------------------------------------------------------------
(* Dispatcher: the loop goroutine *)

\* Dispatcher.Start: go func() { var last *SyncRequest; for { ...
Start ==
    /\ pc = "new"
    /\ pc' = "fire"
    /\ UNCHANGED << targetQ, production, control, onProcessedCountCbs, syncReqCount,
                    cancelled, last, produced, drainN, drainI, syncReq, panicked,
                    enqueued, registered, regLog, fireLog, pops, calls, inProgress,
                    wake >>
    /\ UNCHANGED << driverVars, stopSnap, cbVars, dropped, callStart, sendq, budget, enqReturns, enqCount, err, cancelSnap, ignored >>

\* maybeFireCbs's test.  uint64 sums stay far below 2^64 here
\* ("We do not handle overflows").
ShouldFireReached(c, count) == c.start + c.n <= count
ShouldFire(c, count) == c.start + c.n = count

\* Dispatcher.maybeFireCbs: the callbacks it calls, in order.  removedIdxs is
\* never used: the list is left as it was.
maybeFireCbs(cbs, count) == SelectSeq(cbs, LAMBDA c : ShouldFire(c, count))

receiveCtrlNoStamp(cbs, count, msg) ==
    IF msg.type = "onProcessedCountCb"
    THEN Append(cbs, [cb |-> msg.cb, n |-> msg.n, start |-> msg.start])
    ELSE cbs

receiveCtrlKeepUnknown(cbs, count, msg) ==
    Append(cbs, [cb |-> msg.cb, n |-> msg.n, start |-> count])

\* Dispatcher.receiveCtrl
receiveCtrl(cbs, count, msg) ==
    IF msg.type = "onProcessedCountCb"
    THEN Append(cbs, [cb |-> msg.cb, n |-> msg.n, start |-> count])
    ELSE cbs

\* maybeFireCbs's range loop from entry `from` on: the index of the first
\* entry that fires and whose func calls d.RegisterOnProcessedCount, 0 when
\* there is none
FirstReentry(cbs, count, from) ==
    LET S == { i \in from..Len(cbs) :
                   ShouldFire(cbs[i], count) /\ cbs[i].cb \in reenters }
    IN  IF S = {} THEN 0 ELSE CHOOSE i \in S : \A j \in S : i <= j

\* line 92: d.maybeFireCbs().  opcCb.cb() runs on the loop goroutine; a func
\* that calls d.RegisterOnProcessedCount sends on control there (line 161)
\* and the range loop goes on once that send has been received.
LoopFire ==
    /\ pc = "fire"
    /\ cbSend # Nil => \A k \in 1..Len(control) : control[k].cb # Deref(cbSend).cb
    /\ LET from == IF cbSend = Nil THEN 1 ELSE Deref(cbSend).i + 1
           stop == FirstReentry(onProcessedCountCbs, syncReqCount, from)
           upto == IF stop = 0 THEN Len(onProcessedCountCbs) ELSE stop
           firing == maybeFireCbs(SubSeq(onProcessedCountCbs, from, upto), syncReqCount)
       IN  /\ fireLog' = fireLog \o [i \in 1..Len(firing) |->
                                         [cb |-> firing[i].cb, at |-> syncReqCount]]
           /\ IF stop = 0
              THEN /\ pc' = "shutdown"
                   /\ cbSend' = Nil
                   /\ UNCHANGED << control, registered >>
              ELSE /\ \E count \in 0..MaxCount :
                          control' = Append(control, [type |-> "onProcessedCountCb",
                                                      cb |-> registered + 1,
                                                      n |-> count, start |-> 0])
                   /\ registered' = registered + 1
                   /\ cbSend' = Ref([cb |-> registered + 1, i |-> stop])
                   /\ pc' = "fire"
    /\ UNCHANGED << targetQ, production, onProcessedCountCbs, syncReqCount,
                    cancelled, last, produced, drainN, drainI, syncReq, panicked,
                    enqueued, regLog, pops, calls, inProgress, wake >>
    /\ UNCHANGED << driverVars, stopSnap, reenters, dropped, callStart, sendq, budget, enqReturns, enqCount, err, cancelSnap, ignored >>

LoopShutdownIgnoreDone ==
    /\ pc = "shutdown"
    /\ pc' = "control"
    /\ UNCHANGED << targetQ, production, control, onProcessedCountCbs, syncReqCount,
                    cancelled, last, produced, drainN, drainI, syncReq, panicked,
                    enqueued, registered, regLog, fireLog, pops, calls, inProgress,
                    wake >>
    /\ UNCHANGED << driverVars, stopSnap, cbVars, dropped, callStart, sendq, budget, enqReturns, enqCount, err, cancelSnap, ignored >>

\* What the callers have done by now: completed and parked enqueue calls,
\* the buffer of production, sends on control begun and still parked
CallersSoFar ==
    [enqueued |-> enqueued, buffered |-> Len(production), parked |-> Len(sendq),
     registered |-> registered, waiting |-> Len(control)]

LoopShutdownDrain ==
    /\ pc = "shutdown"
    /\ pc' = IF cancelled THEN "stopped" ELSE "control"
    /\ stopSnap' = IF cancelled THEN Ref(CallersSoFar) ELSE Nil
    /\ production' = IF cancelled THEN << >> ELSE production
    /\ UNCHANGED << targetQ, control, onProcessedCountCbs, syncReqCount,
                    cancelled, last, produced, drainN, drainI, syncReq, panicked,
                    enqueued, registered, regLog, fireLog, pops, calls, inProgress,
                    wake >>
    /\ UNCHANGED << driverVars, cbVars, dropped, callStart, sendq, budget, enqReturns, enqCount, err, cancelSnap, ignored >>

\* lines 94-98: select { case <-syncingCtx.Done(): return; default: }
LoopShutdown ==
    /\ pc = "shutdown"
    /\ pc' = IF cancelled THEN "stopped" ELSE "control"
    /\ stopSnap' = IF cancelled THEN Ref(CallersSoFar) ELSE Nil
    /\ UNCHANGED << targetQ, production, control, onProcessedCountCbs, syncReqCount,
                    cancelled, last, produced, drainN, drainI, syncReq, panicked,
                    enqueued, registered, regLog, fireLog, pops, calls, inProgress,
                    wake >>
    /\ UNCHANGED << driverVars, cbVars, dropped, callStart, sendq, budget, enqReturns, enqCount, err, cancelSnap, ignored >>

RECURSIVE receiveCtrlAll(_, _, _)
receiveCtrlAll(cbs, count, msgs) ==
    IF msgs = << >> THEN cbs
    ELSE receiveCtrlAll(receiveCtrl(cbs, count, Head(msgs)), count, Tail(msgs))

LoopControlAll ==
    /\ pc = "control"
    /\ control' = << >>
    /\ onProcessedCountCbs' = receiveCtrlAll(onProcessedCountCbs, syncReqCount, control)
    /\ regLog' = [c \in { control[i].cb : i \in { j \in 1..Len(control) :
                                 control[j].type = "onProcessedCountCb" } } |->
                     [n |-> (CHOOSE m \in Range(control) : m.cb = c).n,
                      at |-> syncReqCount]] @@ regLog
    /\ ignored' = ignored + Cardinality({ j \in 1..Len(control) :
                                            control[j].type # "onProcessedCountCb" })
    /\ pc' = "production"
    /\ UNCHANGED << targetQ, production, syncReqCount, cancelled, last, produced,
                    drainN, drainI, syncReq, panicked, enqueued, registered, fireLog,
                    pops, calls, inProgress, wake >>
    /\ UNCHANGED << driverVars, stopSnap, cbVars, dropped, callStart, sendq, budget, enqReturns, enqCount, err, cancelSnap >>

\* lines 101-105: select { case ctrl := <-d.control: d.receiveCtrl(ctrl); default: }
LoopControl ==
    /\ pc = "control"
    /\ IF control # << >>
       THEN LET ctrl == Head(control)
            IN  /\ control' = Tail(control)
                /\ onProcessedCountCbs' =
                       receiveCtrl(onProcessedCountCbs, syncReqCount, ctrl)
                /\ regLog' = IF ctrl.type = "onProcessedCountCb"
                             THEN (ctrl.cb :> [n |-> ctrl.n, at |-> syncReqCount]) @@ regLog
                             ELSE regLog
                /\ ignored' = IF ctrl.type = "onProcessedCountCb"
                              THEN ignored ELSE ignored + 1
       ELSE UNCHANGED << control, onProcessedCountCbs, regLog, ignored >>
    /\ pc' = "production"
    /\ UNCHANGED << targetQ, production, syncReqCount, cancelled, last, produced,
                    drainN, drainI, syncReq, panicked, enqueued, registered, fireLog,
                    pops, calls, inProgress, wake >>
    /\ UNCHANGED << driverVars, stopSnap, cbVars, dropped, callStart, sendq, budget, enqReturns, enqCount, err, cancelSnap >>

LoopProductionNoStash ==
    /\ pc = "production"
    /\ last' = Nil
    /\ IF production # << >>
       THEN /\ produced' = << Head(production) >>
            /\ RecvProduction
            /\ pc' = "drainLen"
       ELSE /\ produced' = << >>
            /\ pc' = "sort"
            /\ UNCHANGED << production, sendq, enqueued, enqReturns >>
    /\ UNCHANGED << targetQ, control, onProcessedCountCbs, syncReqCount, cancelled,
                    drainN, drainI, syncReq, panicked, registered, regLog,
                    fireLog, pops, calls, inProgress, wake >>
    /\ UNCHANGED << driverVars, stopSnap, cbVars, dropped, callStart, budget, enqCount, err, cancelSnap, ignored >>

LoopProductionStashLast ==
    /\ pc = "production"
    /\ last' = Nil
    /\ LET stash == IF last # Nil THEN << Deref(last) >> ELSE << >>
       IN  IF production # << >>
           THEN /\ produced' = << Head(production) >> \o stash
                /\ RecvProduction
                /\ pc' = "drainLen"
           ELSE /\ produced' = stash
                /\ pc' = "sort"
                /\ UNCHANGED << production, sendq, enqueued, enqReturns >>
    /\ UNCHANGED << targetQ, control, onProcessedCountCbs, syncReqCount, cancelled,
                    drainN, drainI, syncReq, panicked, registered, regLog,
                    fireLog, pops, calls, inProgress, wake >>
    /\ UNCHANGED << driverVars, stopSnap, cbVars, dropped, callStart, budget, enqCount, err, cancelSnap, ignored >>

LoopProductionKeepLast ==
    /\ pc = "production"
    /\ last' = last
    /\ LET stash == IF last # Nil THEN << Deref(last) >> ELSE << >>
       IN  IF production # << >>
           THEN /\ produced' = Append(stash, Head(production))
                /\ RecvProduction
                /\ pc' = "drainLen"
           ELSE /\ produced' = stash
                /\ pc' = "sort"
                /\ UNCHANGED << production, sendq, enqueued, enqReturns >>
    /\ UNCHANGED << targetQ, control, onProcessedCountCbs, syncReqCount, cancelled,
                    drainN, drainI, syncReq, panicked, registered, regLog,
                    fireLog, pops, calls, inProgress, wake >>
    /\ UNCHANGED << driverVars, stopSnap, cbVars, dropped, callStart, budget, enqCount, err, cancelSnap, ignored >>

\* lines 108-118: the stash, then select { case first := <-d.production: ...; default: }
LoopProduction ==
    /\ pc = "production"
    /\ last' = Nil
    /\ LET stash == IF last # Nil THEN << Deref(last) >> ELSE << >>
       IN  IF production # << >>
           THEN /\ produced' = Append(stash, Head(production))
                /\ RecvProduction
                /\ pc' = "drainLen"
           ELSE /\ produced' = stash
                /\ pc' = "sort"
                /\ UNCHANGED << production, sendq, enqueued, enqReturns >>
    /\ UNCHANGED << targetQ, control, onProcessedCountCbs, syncReqCount, cancelled,
                    drainN, drainI, syncReq, panicked, registered, regLog,
                    fireLog, pops, calls, inProgress, wake >>
    /\ UNCHANGED << driverVars, stopSnap, cbVars, dropped, callStart, budget, enqCount, err, cancelSnap, ignored >>

LoopDrainLenCap ==
    /\ pc = "drainLen"
    /\ drainN' = productionBufferSize
    /\ drainI' = 0
    /\ pc' = "drain"
    /\ UNCHANGED << targetQ, production, control, onProcessedCountCbs, syncReqCount,
                    cancelled, last, produced, syncReq, panicked, enqueued, registered,
                    regLog, fireLog, pops, calls, inProgress, wake >>
    /\ UNCHANGED << driverVars, stopSnap, cbVars, dropped, callStart, sendq, budget, enqReturns, enqCount, err, cancelSnap, ignored >>

\* drainProduced, line 149: n := len(d.production)
LoopDrainLen ==
    /\ pc = "drainLen"
    /\ drainN' = Len(production)
    /\ drainI' = 0
    /\ pc' = "drain"
    /\ UNCHANGED << targetQ, production, control, onProcessedCountCbs, syncReqCount,
                    cancelled, last, produced, syncReq, panicked, enqueued, registered,
                    regLog, fireLog, pops, calls, inProgress, wake >>
    /\ UNCHANGED << driverVars, stopSnap, cbVars, dropped, callStart, sendq, budget, enqReturns, enqCount, err, cancelSnap, ignored >>

\* drainProduced, lines 151-155: for i := 0; i < n; i++ { next := <-d.production; ... }
\* and the return into Start's produced (line 116)
LoopDrain ==
    /\ pc = "drain"
    /\ IF drainI < drainN
       THEN /\ RecvProduction
            /\ produced' = Append(produced, Head(production))
            /\ drainI' = drainI + 1
            /\ UNCHANGED pc
       ELSE /\ pc' = "sort"
            /\ UNCHANGED << produced, production, drainI, sendq, enqueued, enqReturns >>
    /\ UNCHANGED << targetQ, control, onProcessedCountCbs, syncReqCount, cancelled,
                    last, drainN, syncReq, panicked, registered, regLog,
                    fireLog, pops, calls, inProgress, wake >>
    /\ UNCHANGED << driverVars, stopSnap, cbVars, dropped, callStart, budget, enqCount, err, cancelSnap, ignored >>

\* lines 120-122: for _, syncReq := range produced { d.targetQ.Push(syncReq) }
RECURSIVE PushAll(_, _)
PushAll(tq, reqs) ==
    IF reqs = << >> THEN tq ELSE PushAll(TQPush(tq, Head(reqs)), Tail(reqs))

RECURSIVE PushDrops(_, _, _)
\* The requests the Push calls of lines 120-122 return on without adding
\* (lines 260-262), counted on to d
PushDrops(tq, reqs, d) ==
    IF reqs = << >>
    THEN d
    ELSE PushDrops(TQPush(tq, Head(reqs)), Tail(reqs),
                   IF HeadString(Head(reqs).Head) \in tq.targetSet
                   THEN [d EXCEPT ![Head(reqs)] = @ + 1]
                   ELSE d)

LoopSort ==
    /\ pc = "sort"
    /\ targetQ' = PushAll(targetQ, produced)
    /\ dropped' = PushDrops(targetQ, produced, dropped)
    /\ pc' = "pop"
    /\ UNCHANGED << production, control, onProcessedCountCbs, syncReqCount, cancelled,
                    last, produced, drainN, drainI, syncReq, panicked, enqueued,
                    registered, regLog, fireLog, pops, calls, inProgress, wake >>
    /\ UNCHANGED << driverVars, stopSnap, cbVars, callStart, sendq, budget, enqReturns, enqCount, err, cancelSnap, ignored >>

\* lines 125-126: syncReq, popped := d.targetQ.Pop(); if popped { ... } else { ... }
LoopPop ==
    /\ pc = "pop"
    /\ LET p == TQPop(targetQ)
       IN  /\ targetQ' = p.tq
           /\ syncReq' = p.req
           /\ panicked' = p.panic
           /\ pops' = IF p.ok /\ ~p.panic THEN Append(pops, p.req) ELSE pops
           /\ pc' = IF p.panic THEN "panic" ELSE IF p.ok THEN "work" ELSE "idle"
    /\ UNCHANGED << production, control, onProcessedCountCbs, syncReqCount, cancelled,
                    last, produced, drainN, drainI, enqueued, registered, regLog,
                    fireLog, calls, inProgress, wake >>
    /\ UNCHANGED << driverVars, stopSnap, cbVars, dropped, callStart, sendq, budget, enqReturns, enqCount, err, cancelSnap, ignored >>

\* line 128: the call d.catchupSyncer.HandleNewTipSet(syncingCtx, &syncReq.ChainInfo, true)
LoopWorkAsync ==
    /\ pc = "work"
    /\ calls' = Append(calls, [req |-> syncReq, isCatchUp |-> TRUE])
    /\ inProgress' = inProgress + 1
    /\ syncReqCount' = syncReqCount + 1
    /\ pc' = "fire"
    /\ UNCHANGED << targetQ, production, control, onProcessedCountCbs,
                    cancelled, last, produced, drainN, drainI, syncReq, panicked,
                    enqueued, registered, regLog, fireLog, pops, wake >>
    /\ UNCHANGED << driverVars, stopSnap, cbVars, dropped, callStart, sendq, budget, enqReturns, enqCount, err, cancelSnap, ignored >>
LoopWork ==
    /\ pc = "work"
    /\ callStart' = Ref([enqueued |-> enqueued, buffered |-> Len(production)])
    /\ calls' = Append(calls, [req |-> syncReq, isCatchUp |-> TRUE])
    /\ inProgress' = inProgress + 1
    /\ pc' = "syncing"
    /\ UNCHANGED << targetQ, production, control, onProcessedCountCbs, syncReqCount,
                    cancelled, last, produced, drainN, drainI, syncReq, panicked,
                    enqueued, registered, regLog, fireLog, pops, wake >>
    /\ UNCHANGED << driverVars, stopSnap, cbVars, dropped, sendq, budget, enqReturns, enqCount, err, cancelSnap, ignored >>

HandleNewTipSetReturnCountOnSuccess(e) ==
    /\ pc = "syncing"
    /\ callStart' = Nil
    /\ err' = e
    /\ inProgress' = inProgress - 1
    /\ syncReqCount' = IF e = "nil" THEN syncReqCount + 1 ELSE syncReqCount
    /\ wake' = Nil
    /\ pc' = "fire"
    /\ UNCHANGED << targetQ, production, control, onProcessedCountCbs, cancelled,
                    last, produced, drainN, drainI, syncReq, panicked, enqueued,
                    registered, regLog, fireLog, pops, calls >>
    /\ UNCHANGED << driverVars, stopSnap, cbVars, dropped, sendq, budget, enqReturns, enqCount, cancelSnap, ignored >>

HandleNewTipSetReturnToPop(e) ==
    /\ pc = "syncing"
    /\ callStart' = Nil
    /\ err' = e
    /\ inProgress' = inProgress - 1
    /\ syncReqCount' = syncReqCount + 1
    /\ wake' = Nil
    /\ pc' = "pop"
    /\ UNCHANGED << targetQ, production, control, onProcessedCountCbs, cancelled,
                    last, produced, drainN, drainI, syncReq, panicked, enqueued,
                    registered, regLog, fireLog, pops, calls >>
    /\ UNCHANGED << driverVars, stopSnap, cbVars, dropped, sendq, budget, enqReturns, enqCount, cancelSnap, ignored >>

HandleNewTipSetReturnAbortOnDone(e) ==
    /\ pc = "syncing"
    /\ callStart' = Nil
    /\ err' = e
    /\ inProgress' = inProgress - 1
    /\ syncReqCount' = IF cancelled THEN syncReqCount ELSE syncReqCount + 1
    /\ wake' = Nil
    /\ pc' = "fire"
    /\ UNCHANGED << targetQ, production, control, onProcessedCountCbs, cancelled,
                    last, produced, drainN, drainI, syncReq, panicked, enqueued,
                    registered, regLog, fireLog, pops, calls >>
    /\ UNCHANGED << driverVars, stopSnap, cbVars, dropped, sendq, budget, enqReturns, enqCount, cancelSnap, ignored >>

HandleNewTipSetReturnRetry(e) ==
    /\ pc = "syncing"
    /\ callStart' = Nil
    /\ err' = e
    /\ targetQ' = IF e = "nil" THEN targetQ ELSE TQPush(targetQ, syncReq)
    /\ inProgress' = inProgress - 1
    /\ syncReqCount' = syncReqCount + 1
    /\ wake' = Nil
    /\ pc' = "fire"
    /\ UNCHANGED << production, control, onProcessedCountCbs, cancelled,
                    last, produced, drainN, drainI, syncReq, panicked, enqueued,
                    registered, regLog, fireLog, pops, calls >>
    /\ UNCHANGED << driverVars, stopSnap, cbVars, dropped, sendq, budget, enqReturns, enqCount, cancelSnap, ignored >>

\* lines 128-132: HandleNewTipSet returns err (nil or not: an error is only
\* logged), then d.syncReqCount++
HandleNewTipSetReturn(e) ==
    /\ pc = "syncing"
    /\ callStart' = Nil
    /\ err' = e
    /\ inProgress' = inProgress - 1
    /\ syncReqCount' = syncReqCount + 1
    /\ wake' = Nil
    /\ pc' = "fire"
    /\ UNCHANGED << targetQ, production, control, onProcessedCountCbs, cancelled,
                    last, produced, drainN, drainI, syncReq, panicked, enqueued,
                    registered, regLog, fireLog, pops, calls >>
    /\ UNCHANGED << driverVars, stopSnap, cbVars, dropped, sendq, budget, enqReturns, enqCount, cancelSnap, ignored >>

LoopIdleNoStash ==
    /\ pc = "idle"
    /\ RecvProduction
    /\ last' = Nil
    /\ wake' = Ref(Head(production))
    /\ pc' = "fire"
    /\ UNCHANGED << targetQ, control, onProcessedCountCbs, syncReqCount, cancelled,
                    produced, drainN, drainI, syncReq, panicked, registered,
                    regLog, fireLog, pops, calls, inProgress >>
    /\ UNCHANGED << driverVars, stopSnap, cbVars, dropped, callStart, budget, enqCount, err, cancelSnap, ignored >>

\* lines 135-138: select { case extra := <-d.production: last = &extra }
LoopIdle ==
    /\ pc = "idle"
    /\ RecvProduction
    /\ last' = Ref(Head(production))
    /\ wake' = Ref(Head(production))
    /\ pc' = "fire"
    /\ UNCHANGED << targetQ, control, onProcessedCountCbs, syncReqCount, cancelled,
                    produced, drainN, drainI, syncReq, panicked, registered,
                    regLog, fireLog, pops, calls, inProgress >>
    /\ UNCHANGED << driverVars, stopSnap, cbVars, dropped, callStart, budget, enqCount, err, cancelSnap, ignored >>

Next ==
    \/ \E ci \in Announced : ReceiveHello(ci)
    \/ \E ci \in Announced : ReceiveOwnBlock(ci)
    \/ \E ci \in Announced : ReceiveGossipBlock(ci)
    \/ \E count \in 0..MaxCount : RegisterOnProcessedCount(count)
    \/ Cancel
    \/ Start
    \/ LoopFire
    \/ LoopShutdown
    \/ LoopControl
    \/ LoopProduction
    \/ LoopDrainLen
    \/ LoopDrain
    \/ LoopSort
    \/ LoopPop
    \/ LoopWork
    \/ \E e \in {"nil", "error"} : HandleNewTipSetReturn(e)
    \/ LoopIdle

Spec == Init /\ [][Next]_vars

\* A step of the loop goroutine once started
LoopStep ==
    \/ LoopFire
    \/ LoopShutdown
    \/ LoopControl
    \/ LoopProduction
    \/ LoopDrainLen
    \/ LoopDrain
    \/ LoopSort
    \/ LoopPop
    \/ LoopWork
    \/ LoopIdle

\* A return of the syncer's HandleNewTipSet
SyncerReturns == \E e \in {"nil", "error"} : HandleNewTipSetReturn(e)

\* SpecHand: producers announcing any of the chain infos, and cancellation;
\* no control message
InitHand == NewDispatcher(MaxEnqueue, 0)

NextHand ==
    \/ \E ci \in ChainInfos : ReceiveHello(ci)
    \/ \E ci \in ChainInfos : ReceiveOwnBlock(ci)
    \/ \E ci \in ChainInfos : ReceiveGossipBlock(ci)
    \/ Cancel
    \/ Start
    \/ LoopStep
    \/ SyncerReturns

SpecHand == InitHand /\ [][NextHand]_vars

\* The goroutine of the loop is scheduled whenever it can take a step, and
\* every HandleNewTipSet call returns
SpecLive == SpecHand /\ WF_vars(LoopStep) /\ WF_vars(SyncerReturns)

\* SpecCtl: one enqueue call and several sends on control, of
\* onProcessedCountCb messages and of messages of another type
InitCtl == NewDispatcher(1, MaxControl)

NextCtl ==
    \/ Next
    \/ SendUnknownControl

SpecCtl == InitCtl /\ [][NextCtl]_vars

\* SpecBP: more enqueue calls than the production channel holds, no control
\* message and no cancellation
InitBP == NewDispatcher(productionBufferSize + MaxExcess, 0)

NextBP ==
    \/ \E ci \in Flood : ReceiveHello(ci)
    \/ \E ci \in Flood : ReceiveOwnBlock(ci)
    \/ \E ci \in Flood : ReceiveGossipBlock(ci)
    \/ Start
    \/ LoopStep
    \/ SyncerReturns

SpecBP == InitBP /\ [][NextBP]_vars

SpecBPLive == SpecBP /\ WF_vars(LoopStep) /\ WF_vars(SyncerReturns)

-----------------------------------------------------------------------------
(* Properties of the callbacks (Spec) *)

Fired(cb) == \E i \in 1..Len(fireLog) : fireLog[i].cb = cb

\* C1: a registered callback is invoked at most once in an execution of the
\* loop: no callback appears twice among the invocations made so far.
C1_FiresAtMostOnce ==
    \A i, j \in 1..Len(fireLog) : i # j => fireLog[i].cb # fireLog[j].cb

\* C2: a callback registered with count n when syncReqCount = b is invoked
\* only in states where syncReqCount = b + n, never at a smaller count.
C2_FiresOnlyAtTarget ==
    \A i \in 1..Len(fireLog) :
        /\ fireLog[i].cb \in DOMAIN regLog
        /\ fireLog[i].at = regLog[fireLog[i].cb].at + regLog[fireLog[i].cb].n

\* A callback asked for after one more request has fired, at count 1, after
\* the counter had been 0 with the callback pending
C2_Witness ==
    \E i \in 1..Len(fireLog) :
        /\ regLog[fireLog[i].cb].n = 1
        /\ regLog[fireLog[i].cb].at = 0
        /\ fireLog[i].at = 1

\* C3: for every n >= 0, the counter never passes the target of a received
\* callback without the callback having fired: once n further requests have
\* been processed and the counter moves on, the callback has been invoked.
C3_NeverPassedUnfired ==
    \A cb \in DOMAIN regLog :
        syncReqCount > regLog[cb].at + regLog[cb].n => Fired(cb)

-----------------------------------------------------------------------------
(* Properties of the TargetQueue (SpecQ) *)

DistinctHeads(reqs) ==
    \A i, j \in 1..Len(reqs) : i # j => reqs[i].Head # reqs[j].Head

\* C4 as stated: pushes of pairwise distinct Heads into an empty queue, then
\* only pops: the pops come out in strictly descending Height order.
C4_StrictlyDescending ==
    (freshRun /\ DistinctHeads(pushedReqs)) =>
        \A i, j \in 1..Len(poppedReqs) :
            i < j => poppedReqs[i].Height > poppedReqs[j].Height

\* C4 as amended: the pops return the pushed requests in non-increasing Height
\* order (a greater Height always before a smaller one; distinct Heads of
\* equal Height in an order the heap decides), each popped request being of
\* the greatest Height then resident, and every pushed request is either
\* popped or still resident.
C4_Descending ==
    (freshRun /\ DistinctHeads(pushedReqs)) =>
        /\ \A i, j \in 1..Len(poppedReqs) :
               i < j => poppedReqs[i].Height >= poppedReqs[j].Height
        /\ \A i \in 1..Len(poppedReqs) : \A e \in Range(targetQ.q) :
               poppedReqs[i].Height >= e.Height
        /\ Range(poppedReqs) \cup Range(targetQ.q) = Range(pushedReqs)
        /\ Len(poppedReqs) + TQLen(targetQ) = Len(pushedReqs)

\* TestQueueHappy: heights 2, 47, 0, 1 pushed, popped as 47, 2, 1, 0
C4_Witness ==
    /\ freshRun
    /\ pushedReqs = << SyncRequest(ChainInfo(1, 2)), SyncRequest(ChainInfo(2, 47)),
                       SyncRequest(ChainInfo(3, 0)), SyncRequest(ChainInfo(4, 1)) >>
    /\ poppedReqs = << SyncRequest(ChainInfo(2, 47)), SyncRequest(ChainInfo(1, 2)),
                       SyncRequest(ChainInfo(4, 1)), SyncRequest(ChainInfo(3, 0)) >>
    /\ TQLen(targetQ) = 0

Resident(tq, head) == HeadString(head) \in tq.targetSet

\* C5: a Push of a request whose Head is resident changes nothing (length,
\* the resident entry and its Height stay; the new request is dropped even if
\* its Height differs); a popped Head is no longer resident, and a Push of a
\* Head that is not resident is admitted and raises the length by one.
C5_DuplicatePushIsNoOp ==
    /\ (lastOp.op = "Push" /\ Resident(lastOp.before, lastOp.req.Head)) =>
           targetQ = lastOp.before
    /\ (lastOp.op = "Pop" /\ lastOp.ok) =>
           ~Resident(targetQ, lastOp.req.Head)
    /\ (lastOp.op = "Push" /\ ~Resident(lastOp.before, lastOp.req.Head)) =>
           /\ TQLen(targetQ) = TQLen(lastOp.before) + 1
           /\ lastOp.req \in Range(targetQ.q)

\* A Push of a resident Head under another Height has been made
C5_Witness ==
    /\ lastOp.op = "Push"
    /\ \E e \in Range(lastOp.before.q) :
           e.Head = lastOp.req.Head /\ e.Height # lastOp.req.Height
    /\ TQLen(targetQ) = 2

\* C6: the heap has as many entries as the membership set has members, the
\* membership set is the set of the Heads of the heap entries, and no two
\* heap entries share a Head.
C6_HeapAndSetInLockstep ==
    /\ TQLen(targetQ) = Cardinality(targetQ.targetSet)
    /\ targetQ.targetSet = { HeadString(e.Head) : e \in Range(targetQ.q) }
    /\ DistinctHeads(targetQ.q)

\* Three entries are left after a Pop, and a resident Head was pushed again
C6_Witness ==
    /\ lastOp.op = "Push"
    /\ Resident(lastOp.before, lastOp.req.Head)
    /\ poppedReqs = << >>
    /\ ~freshRun
    /\ TQLen(targetQ) = 3

-----------------------------------------------------------------------------
(* Properties of the dispatch (Spec) *)

LastCall == calls[Len(calls)]

\* C8 as stated: the request handed to the syncer after the loop woke up from
\* its idle wait is exactly the request that woke it.
C8_WakeRequestDispatched ==
    (pc = "syncing" /\ wake # Nil) => LastCall.req = Deref(wake)

\* C8 as amended: the loop waits only on an empty queue; the request handed
\* to the syncer after the wake-up is one of those received from the
\* production channel since the wait began (the request that woke the loop,
\* first in the batch, or one gathered with it), of a Height not below that
\* of the wake-up request, and is the wake-up request itself when nothing
\* else was gathered.
C8_WakeBatchDispatched ==
    /\ pc = "idle" => (TQLen(targetQ) = 0 /\ last = Nil)
    /\ (pc = "syncing" /\ wake # Nil) =>
           /\ produced # << >>
           /\ produced[1] = Deref(wake)
           /\ LastCall.req \in Range(produced)
           /\ LastCall.req.Height >= Deref(wake).Height
           /\ Len(produced) = 1 => LastCall.req = Deref(wake)

\* The loop woke up on one request and handed another, gathered with it
C8_Witness ==
    /\ pc = "syncing"
    /\ wake # Nil
    /\ Len(produced) = 2
    /\ LastCall.req # Deref(wake)

\* C9: when a request is handed to the syncer, no request resident in the
\* TargetQueue has a greater Height.
C9_DispatchedIsMax ==
    pc \in {"work", "syncing"} =>
        \A e \in Range(targetQ.q) : e.Height <= syncReq.Height

\* A request is with the syncer while a request of smaller Height is resident
C9_Witness ==
    /\ pc = "syncing"
    /\ \E e \in Range(targetQ.q) : e.Height < LastCall.req.Height

\* C10: at most one HandleNewTipSet is in progress; every popped request is
\* handed over exactly once, in pop order, with isCatchUp = true; nothing
\* else is handed over.
C10_SingleFlight ==
    /\ inProgress <= 1
    /\ inProgress = (IF pc = "syncing" THEN 1 ELSE 0)
    /\ Len(calls) = Len(pops) - (IF pc = "work" THEN 1 ELSE 0)
    /\ \A i \in 1..Len(calls) : calls[i].isCatchUp /\ calls[i].req = pops[i]

\* The second invocation is in progress
C10_Witness ==
    /\ pc = "syncing"
    /\ Len(calls) = 2
    /\ inProgress = 1

-----------------------------------------------------------------------------
(* Properties of the processed count and of failures (Spec) *)

\* HandleNewTipSet invocations that have returned
Completed == Len(calls) - inProgress

\* C11: syncReqCount goes up by one per HandleNewTipSet invocation, failed or
\* not, and at no other time: it always equals the number of invocations
\* that have returned.
C11_CountIsCompleted ==
    syncReqCount = Completed

\* Two invocations have returned, the last with an error, and both count
C11_Witness ==
    /\ err = "error"
    /\ Completed = 2
    /\ syncReqCount = 2

\* The loop is at the top of the cycle that follows a HandleNewTipSet return
JustReturned == pc = "fire" /\ wake = Nil /\ Len(calls) > 0

\* Invocations of HandleNewTipSet made for a Head
CallsOf(head) == Cardinality({ i \in 1..Len(calls) : calls[i].req.Head = head })

RECURSIVE EnqSum(_)
EnqSum(S) ==
    IF S = {} THEN 0
    ELSE LET r == CHOOSE x \in S : TRUE IN enqCount[r] + EnqSum(S \ {r})

\* Enqueue calls made for a Head
EnqueuesOf(head) == EnqSum({ r \in Requests : r.Head = head })

\* C12: an error of HandleNewTipSet is not returned to a producer and does
\* not stop the loop, which is at the top of its next cycle after the failed
\* call with the failed Head neither resident in the TargetQueue nor stashed;
\* a Head is resident or dispatched at most as often as it was enqueued.
C12_ErrorIsNotFatal ==
    /\ enqReturns \subseteq {"nil"}
    /\ pc = "stopped" => cancelled
    /\ (JustReturned /\ err = "error") =>
           /\ ~Resident(targetQ, LastCall.req.Head)
           /\ last = Nil
    /\ \A ci \in ChainInfos :
           CallsOf(ci.Head) + (IF Resident(targetQ, ci.Head) THEN 1 ELSE 0)
               <= EnqueuesOf(ci.Head)

\* After a failed invocation the syncer is invoked for another Head
C12_Witness ==
    /\ pc = "syncing"
    /\ err = "error"
    /\ Len(calls) = 2
    /\ calls[2].req.Head # calls[1].req.Head

\* After a failed invocation the same Head, enqueued again, is dispatched again
C12_RetryWitness ==
    /\ pc = "syncing"
    /\ err = "error"
    /\ Len(calls) = 2
    /\ calls[2].req.Head = calls[1].req.Head

-----------------------------------------------------------------------------
(* Liveness of the hand-over (SpecLive) *)

\* HandleNewTipSet has been invoked for the request
Called(r) == \E i \in 1..Len(calls) : calls[i].req = r

\* No Head has been enqueued twice
EachHeadOnce == \A ci \in ChainInfos : EnqueuesOf(ci.Head) <= 1

\* Every request enqueued so far has been handed to the syncer
AllCalled == \A r \in Requests : enqCount[r] > 0 => Called(r)

\* C13: while every Head is enqueued at most once, no Head is handed to the
\* syncer more than once or without having been enqueued, and a started loop
\* eventually has handed every request enqueued (finitely many) to the
\* syncer, unless syncingCtx is cancelled (or a Head is enqueued a second time).
C13_AllDispatchedOnce ==
    /\ [](EachHeadOnce =>
             \A ci \in ChainInfos : CallsOf(ci.Head) <= EnqueuesOf(ci.Head))
    /\ (pc # "new") ~> (AllCalled \/ cancelled \/ ~EachHeadOnce)

\* Two Heads, each enqueued once, have both been handed to the syncer once
C13_Witness ==
    /\ ~cancelled
    /\ EachHeadOnce
    /\ AllCalled
    /\ Len(calls) = 2
    /\ CallsOf(1) = 1
    /\ CallsOf(2) = 1

-----------------------------------------------------------------------------
(* Properties of the production channel (SpecBP) *)

\* Enqueue calls made so far
EnqueueCalls == EnqSum(Requests)

\* C14: the production channel never holds more than productionBufferSize
\* requests; an enqueue call is parked only on a full channel, and every
\* enqueue call made has either completed its send or is parked with its
\* request: none is dropped or turned away.  No more than
\* productionBufferSize calls complete before the loop runs.
C14_Backpressure ==
    /\ Len(production) <= productionBufferSize
    /\ enqueued > productionBufferSize => pc # "new"
    /\ sendq # << >> => Len(production) = productionBufferSize
    /\ EnqueueCalls = enqueued + Len(sendq)
    /\ enqReturns \subseteq {"nil"}

\* An enqueue call made on a full channel is parked
C14_Witness ==
    /\ Len(production) = productionBufferSize
    /\ Len(sendq) = 1
    /\ enqueued = productionBufferSize

-----------------------------------------------------------------------------
(* Properties of cancellation (Spec) *)

\* C15: the loop that finds syncingCtx done at its shutdown check stops, and
\* a stopped loop stays stopped: no step invokes the syncer or a callback,
\* pops, or changes syncReqCount, the TargetQueue or the stash, and the
\* production channel only grows at its tail (by producers' sends).
C15_StopsForGood ==
    [][ /\ (pc = "shutdown" /\ cancelled /\ pc' # pc) => pc' = "stopped"
        /\ pc = "stopped" =>
               /\ pc' = "stopped"
               /\ calls' = calls
               /\ inProgress' = inProgress
               /\ pops' = pops
               /\ syncReqCount' = syncReqCount
               /\ targetQ' = targetQ
               /\ last' = last
               /\ fireLog' = fireLog
               /\ Len(production') >= Len(production)
               /\ SubSeq(production', 1, Len(production)) = production ]_vars

\* The loop has stopped after one invocation with a request resident in the
\* TargetQueue
C15_Witness ==
    /\ pc = "stopped"
    /\ TQLen(targetQ) > 0
    /\ Len(calls) = 1

\* What the loop had done when syncingCtx was cancelled during a call
AtCancel == Deref(cancelSnap)

\* C16 as stated: after a cancellation during a HandleNewTipSet call the call
\* returns and is counted, and the loop makes no further pop, no further
\* invocation and fires no further callback.
C16_NothingAfterInFlight ==
    cancelSnap # Nil =>
        /\ pc \in {"syncing", "fire", "shutdown", "stopped"}
        /\ syncReqCount = AtCancel.count + (IF pc = "syncing" THEN 0 ELSE 1)
        /\ Len(pops) = AtCancel.pops
        /\ Len(calls) = AtCancel.calls
        /\ Len(fireLog) = AtCancel.fires

\* C16 amended: after a cancellation during a HandleNewTipSet call the call
\* returns and is counted, and the loop makes no further pop and no further
\* invocation; it runs maybeFireCbs once more, which fires each callback whose
\* target is the new count, in list order, and then stops at the shutdown check.
C16_InFlightCompletes ==
    cancelSnap # Nil =>
        /\ pc \in {"syncing", "fire", "shutdown", "stopped"}
        /\ syncReqCount = AtCancel.count + (IF pc = "syncing" THEN 0 ELSE 1)
        /\ Len(pops) = AtCancel.pops
        /\ Len(calls) = AtCancel.calls
        /\ pc \in {"syncing", "fire"} => Len(fireLog) = AtCancel.fires
        /\ pc \in {"shutdown", "stopped"} =>
               SubSeq(fireLog, AtCancel.fires + 1, Len(fireLog)) =
                   [i \in 1..Len(maybeFireCbs(onProcessedCountCbs, syncReqCount)) |->
                       [cb |-> maybeFireCbs(onProcessedCountCbs, syncReqCount)[i].cb,
                        at |-> AtCancel.count + 1]]

\* The loop has stopped after a cancellation during a call, having counted
\* the call and fired a callback after it
C16_Witness ==
    /\ cancelSnap # Nil
    /\ pc = "stopped"
    /\ syncReqCount = AtCancel.count + 1
    /\ Len(fireLog) = AtCancel.fires + 1

-----------------------------------------------------------------------------
(* Priority against arrival order (Spec) *)

\* C17: Height decides, not arrival: when the syncer is invoked for a request
\* of this cycle's gather, no request the loop received after it in the
\* gather and of greater Height is left waiting in the TargetQueue; the later
\* and higher request goes first.
C17_HigherOvertakes ==
    pc = "syncing" =>
        \A i, j \in 1..Len(produced) :
            (i < j /\ LastCall.req = produced[i]
                   /\ produced[j].Height > produced[i].Height)
                => produced[j] \notin Range(targetQ.q)

\* A was enqueued and received before B, Height(B) > Height(A), and the
\* syncer is invoked for B, first of all, while A waits in the TargetQueue
C17_Witness ==
    /\ pc = "syncing"
    /\ Len(calls) = 1
    /\ Len(produced) = 2
    /\ produced[2].Height > produced[1].Height
    /\ LastCall.req = produced[2]
    /\ produced[1] \in Range(targetQ.q)

-----------------------------------------------------------------------------
(* Properties of the control channel (SpecCtl) *)

\* The loop's step at its control select takes a message off the channel
TakesControl == pc = "control" /\ pc' = "production" /\ control # << >>

\* C18: the loop's receipt of an onProcessedCountCb message (n, cb) appends
\* [cb, n, start = syncReqCount at the receipt] at the end of
\* onProcessedCountCbs, whatever start the message carried, and changes
\* nothing else of the dispatcher but the loop's position.
C18_StampAndAppend ==
    [][ (TakesControl /\ Head(control).type = "onProcessedCountCb") =>
            /\ onProcessedCountCbs' =
                   Append(onProcessedCountCbs,
                          [cb |-> Head(control).cb, n |-> Head(control).n,
                           start |-> syncReqCount])
            /\ control' = Tail(control)
            /\ UNCHANGED << targetQ, production, sendq, syncReqCount, cancelled,
                            last, produced, syncReq, fireLog, pops, calls >> ]_vars

\* A second callback, received after one request was processed, is stamped 1
\* (its message carried 0) and stands behind the first
C18_Witness ==
    /\ Len(onProcessedCountCbs) = 2
    /\ onProcessedCountCbs[1].cb = 1
    /\ onProcessedCountCbs[1].start = 0
    /\ onProcessedCountCbs[2].cb = 2
    /\ onProcessedCountCbs[2].start = 1

\* C19: the loop's receipt of a control message of another type leaves
\* onProcessedCountCbs, syncReqCount, the TargetQueue and the stash as they
\* were, and the loop goes on to its production step.
C19_UnknownIgnored ==
    [][ (TakesControl /\ Head(control).type # "onProcessedCountCb") =>
            /\ UNCHANGED << onProcessedCountCbs, syncReqCount, targetQ, last >>
            /\ control' = Tail(control)
            /\ ignored' = ignored + 1
            /\ pc' = "production" ]_vars

\* A message of another type was sent and ignored before the callback 2 was
\* received at count 0; since then a request was dispatched and counted and
\* the callback fired
C19_Witness ==
    /\ ignored = 1
    /\ Len(onProcessedCountCbs) = 1
    /\ onProcessedCountCbs[1].cb = 2
    /\ onProcessedCountCbs[1].start = 0
    /\ syncReqCount = 1
    /\ Fired(2)

-----------------------------------------------------------------------------
(* Liveness of the enqueue calls (SpecBPLive) *)

\* C20: an enqueue call returns nil and nothing else; a call that has not
\* completed is parked on a full production channel, whatever the loop has
\* pushed or handed to the syncer (so the first productionBufferSize calls
\* complete at once); and a started loop eventually has let every enqueue
\* call made (finitely many) complete.
C20_EnqueueCompletes ==
    /\ [](enqReturns \subseteq {"nil"})
    /\ [](EnqueueCalls - enqueued = Len(sendq))
    /\ [](sendq # << >> => Len(production) = productionBufferSize)
    /\ (pc # "new") ~> (enqueued = EnqueueCalls)

\* More enqueue calls than the channel holds have completed, all returning
\* nil, before any request was handed to the syncer
C20_Witness ==
    /\ enqueued = productionBufferSize + 1
    /\ enqReturns = {"nil"}
    /\ Len(calls) = 0

-----------------------------------------------------------------------------
(* The three entry points (SpecBP) *)

\* C21: ReceiveHello, ReceiveOwnBlock and ReceiveGossipBlock make the same
\* transitions: a step from a state is a ReceiveHello(ci) step exactly when
\* it is a ReceiveOwnBlock(ci) step and exactly when it is a
\* ReceiveGossipBlock(ci) step, so the three lead to the same states (which
\* keep no trace of the entry point) and to the same behaviour of the loop.
C21_EntryPointsIdentical ==
    [][ \A ci \in ChainInfos :
            /\ ReceiveHello(ci) <=> ReceiveOwnBlock(ci)
            /\ ReceiveHello(ci) <=> ReceiveGossipBlock(ci) ]_vars

\* Two enqueue calls have put their requests in the production channel
C21_Witness ==
    /\ pc = "new"
    /\ enqueued = 2
    /\ production = << SyncRequest(ChainInfo(1, 2)), SyncRequest(ChainInfo(2, 47)) >>

-----------------------------------------------------------------------------
(* The length of the TargetQueue (SpecQ) *)

\* The Heads of the entries of a TargetQueue
HeadsOf(tq) == { e.Head : e \in Range(tq.q) }

\* C22: Len is the number of distinct Heads resident; a Push raises it by
\* one when the Head was not resident and leaves it when it was; a Pop
\* succeeds and lowers it by one on a queue that is not empty, and fails and
\* leaves it 0 on an empty one; after pushes of distinct Heads into an empty
\* queue and pops it is the number of pushes less the number of pops.
C22_LenIsResidentHeads ==
    /\ TQLen(targetQ) = Cardinality(HeadsOf(targetQ))
    /\ lastOp.op = "Push" =>
           TQLen(targetQ) = TQLen(lastOp.before) +
               (IF lastOp.req.Head \in HeadsOf(lastOp.before) THEN 0 ELSE 1)
    /\ lastOp.op = "Pop" =>
           /\ lastOp.ok <=> TQLen(lastOp.before) > 0
           /\ TQLen(targetQ) = TQLen(lastOp.before) - (IF lastOp.ok THEN 1 ELSE 0)
    /\ (freshRun /\ DistinctHeads(pushedReqs)) =>
           TQLen(targetQ) = Len(pushedReqs) - Len(poppedReqs)

\* Four distinct Heads were pushed into an empty queue, which had length 4
\* before the last of four Pops and has length 0 after it
C22_Witness ==
    /\ freshRun
    /\ Len(pushedReqs) = 4
    /\ DistinctHeads(pushedReqs)
    /\ Len(poppedReqs) = 4
    /\ lastOp.op = "Pop"
    /\ TQLen(lastOp.before) = 1
    /\ TQLen(targetQ) = 0

-----------------------------------------------------------------------------
(* The pending callbacks (Spec) *)

\* C23: a callback that has fired is no longer in onProcessedCountCbs: the
\* list holds only callbacks that have not fired.
C23_PendingNotFired ==
    \A i \in 1..Len(onProcessedCountCbs) : ~Fired(onProcessedCountCbs[i].cb)

\* What one run of maybeFireCbs at the count adds to the fire log
Evaluation(cbs, count) ==
    [i \in 1..Len(maybeFireCbs(cbs, count)) |->
        [cb |-> maybeFireCbs(cbs, count)[i].cb, at |-> count]]

\* C24: syncReqCount changes by one at a time, and every change takes the
\* loop to the top of its cycle, where the count stays as it is until
\* maybeFireCbs has run at that count; the started loop begins there too.
C24_EveryCountEvaluated ==
    [][ /\ syncReqCount' # syncReqCount =>
               (syncReqCount' = syncReqCount + 1 /\ pc' = "fire")
        /\ (pc = "new" /\ pc' # pc) => (pc' = "fire" /\ syncReqCount' = 0)
        /\ pc = "fire" => syncReqCount' = syncReqCount
        /\ (pc = "fire" /\ pc' # pc) =>
               /\ pc' = "shutdown"
               /\ fireLog' = fireLog \o Evaluation(onProcessedCountCbs, syncReqCount) ]_vars

\* The count has been 1, where an evaluation fired a callback, and is 2,
\* where an evaluation has just run
C24_Witness ==
    /\ pc = "shutdown"
    /\ syncReqCount = 2
    /\ \E i \in 1..Len(fireLog) : fireLog[i].at = 1

-----------------------------------------------------------------------------
(* The idle wait and the stash (Spec) *)

\* C25: the loop comes to its blocking receive only from a Pop that found
\* the TargetQueue empty; the request received there goes to last and the
\* TargetQueue stays empty while last is set; the next gather puts the
\* stashed request first in produced, before anything it takes from the
\* production channel, and clears last; produced is pushed in its order.
C25_StashFirst ==
    /\ [](last # Nil =>
             /\ pc \in {"fire", "shutdown", "control", "production", "stopped"}
             /\ TQLen(targetQ) = 0)
    /\ [][ /\ (pc' = "idle" /\ pc # "idle") =>
                  (pc = "pop" /\ TQLen(targetQ) = 0 /\ TQLen(targetQ') = 0)
           /\ (pc = "idle" /\ pc' # pc) =>
                  /\ production # << >>
                  /\ last' = Ref(Head(production))
                  /\ targetQ' = targetQ
                  /\ pc' = "fire"
           /\ (pc = "production" /\ pc' # pc) =>
                  /\ last' = Nil
                  /\ (last # Nil => (produced' # << >> /\ produced'[1] = Deref(last)))
           /\ (pc = "sort" /\ pc' # pc) =>
                  targetQ' = PushAll(targetQ, produced) ]_vars

\* The gather after an idle wait has put the stashed request before the one
\* it took from the production channel, and the stash is empty
C25_Witness ==
    /\ pc = "sort"
    /\ wake # Nil
    /\ Len(produced) = 2
    /\ produced[1] = Deref(wake)
    /\ produced[2] # produced[1]
    /\ last = Nil

-----------------------------------------------------------------------------
(* The gather (SpecBP) *)

\* C26: the loop can always take its step while it gathers: drainProduced
\* sets n to the number of requests buffered at its call, at most
\* productionBufferSize, as many requests as it has still to read are
\* buffered at each of its reads whatever the producers do meanwhile, it
\* returns after n reads, and produced never holds more than
\* 1 + 1 + productionBufferSize requests.
C26_GatherNeverBlocks ==
    /\ [](pc \in {"production", "drainLen", "drain", "sort"} => ENABLED LoopStep)
    /\ [](pc = "drain" =>
             /\ drainN <= productionBufferSize
             /\ drainI <= drainN
             /\ Len(production) >= drainN - drainI)
    /\ [](Len(produced) <= 1 + 1 + productionBufferSize)
    /\ [][ /\ (pc = "drainLen" /\ pc' # pc) =>
                  (pc' = "drain" /\ drainN' = Len(production) /\ drainI' = 0)
           /\ (pc = "drain" /\ pc' = "sort") =>
                  (drainI = drainN /\ produced' = produced) ]_vars

\* With a sender parked on the full channel, the gather has taken one
\* request, found productionBufferSize buffered and read them all
C26_Witness ==
    /\ pc = "sort"
    /\ drainN = productionBufferSize
    /\ drainI = drainN
    /\ Len(produced) = 1 + productionBufferSize

-----------------------------------------------------------------------------
(* The loop during a HandleNewTipSet call (SpecBP) *)

\* s is t or t with values appended
IsPrefix(s, t) == Len(s) <= Len(t) /\ SubSeq(t, 1, Len(s)) = s

\* C27: while HandleNewTipSet is in progress no step takes a value from
\* production or from control, touches the TargetQueue, the stash or the
\* pending callbacks, pops or fires a callback, whatever is enqueued
\* meanwhile; the enqueue calls completed since the call began number at
\* most the free capacity the channel had then, so at most
\* productionBufferSize.
C27_NothingDuringCall ==
    /\ [](pc = "syncing" =>
             /\ callStart # Nil
             /\ enqueued - Deref(callStart).enqueued
                    <= productionBufferSize - Deref(callStart).buffered
             /\ enqueued - Deref(callStart).enqueued <= productionBufferSize)
    /\ [][ pc = "syncing" =>
               /\ IsPrefix(production, production')
               /\ IsPrefix(control, control')
               /\ UNCHANGED << targetQ, last, produced, onProcessedCountCbs,
                               pops, calls, fireLog >> ]_vars

\* During a call for a request of height 2, productionBufferSize enqueue
\* calls have completed, one of them for a request of height 47, which
\* waits in the channel
C27_Witness ==
    /\ pc = "syncing"
    /\ LastCall.req.Height = 2
    /\ enqueued - Deref(callStart).enqueued = productionBufferSize
    /\ \E i \in 1..Len(production) : production[i].Height = 47

-----------------------------------------------------------------------------
(* The control select (SpecCtl) *)

\* C28: the loop can always take its step at the control select; a message
\* leaves control only by that step, one message a step, the one parked
\* first, and the step goes on to the gather whether it found a sender or
\* not, so a cycle receives at most one message.
C28_OneControlPerCycle ==
    /\ [](pc = "control" => ENABLED LoopControl)
    /\ [][ /\ ~IsPrefix(control, control') =>
                  (pc = "control" /\ control # << >> /\ control' = Tail(control))
           /\ (pc = "control" /\ pc' # pc) =>
                  /\ pc' = "production"
                  /\ control = << >> =>
                         UNCHANGED << control, onProcessedCountCbs >>
                  /\ Len(onProcessedCountCbs') <= Len(onProcessedCountCbs) + 1 ]_vars

\* Two senders were parked on control: the cycle has received the first
\* message and goes on to the gather with the second still parked
C28_Witness ==
    /\ pc = "production"
    /\ Len(control) = 1
    /\ control[1].cb = 2
    /\ Len(onProcessedCountCbs) + ignored = 1

-----------------------------------------------------------------------------
(* Who changes what (Spec) *)

\* A step of an enqueue call
EnqueueStep ==
    \E ci \in ChainInfos :
        ReceiveHello(ci) \/ ReceiveOwnBlock(ci) \/ ReceiveGossipBlock(ci)

\* A step of a RegisterOnProcessedCount call
RegisterStep == \E count \in 0..MaxCount : RegisterOnProcessedCount(count)

\* C29: a step that changes the TargetQueue, the pending callbacks, the
\* stash or syncReqCount is a step of the loop (the return of its
\* HandleNewTipSet call included); an enqueue call only adds its request to
\* the production channel (or parks with it), and a RegisterOnProcessedCount
\* call only parks its message on control.
C29_OnlyLoopChangesState ==
    [][ /\ (targetQ' # targetQ \/ onProcessedCountCbs' # onProcessedCountCbs
                \/ last' # last \/ syncReqCount' # syncReqCount)
               => (LoopStep \/ SyncerReturns)
        /\ EnqueueStep =>
               /\ \/ Len(production') = Len(production) + 1 /\ sendq' = sendq
                  \/ Len(sendq') = Len(sendq) + 1 /\ production' = production
               /\ IsPrefix(production, production')
               /\ IsPrefix(sendq, sendq')
               /\ UNCHANGED << targetQ, control, onProcessedCountCbs, syncReqCount,
                               last, produced, syncReq, pc, cancelled, fireLog >>
        /\ RegisterStep =>
               /\ Len(control') = Len(control) + 1
               /\ IsPrefix(control, control')
               /\ UNCHANGED << targetQ, production, sendq, onProcessedCountCbs,
                               syncReqCount, last, produced, syncReq, pc,
                               cancelled, fireLog >> ]_vars

\* An enqueue call and a RegisterOnProcessedCount call have been made, the
\* loop has taken neither up, and its state is as NewDispatcher left it
C29_Witness ==
    /\ pc = "fire"
    /\ Len(production) = 1
    /\ Len(control) = 1
    /\ targetQ = NewTargetQueue
    /\ onProcessedCountCbs = << >>
    /\ last = Nil
    /\ syncReqCount = 0

-----------------------------------------------------------------------------
(* Termination after cancellation (SpecLive) *)

\* C30: once syncingCtx is cancelled, a started loop eventually returns,
\* whatever it was doing, the wait for the next request on an empty queue
\* included.  The wait of lines 135-138 selects on d.production alone, so
\* the loop that is waiting there when the context is cancelled stays
\* there for as long as no enqueue call is made.
C30_StopsAfterCancel == (cancelled /\ pc # "new") ~> (pc = "stopped")

-----------------------------------------------------------------------------
(* Delivery of control messages (SpecFair) *)

\* Spec with the scheduling of SpecLive: the goroutine of the loop is
\* scheduled whenever it can take a step, and every HandleNewTipSet call
\* returns
SpecFair == Spec /\ WF_vars(LoopStep) /\ WF_vars(SyncerReturns)

\* C31: a RegisterOnProcessedCount call made on a started dispatcher whose
\* context is not cancelled eventually returns (its message is received from
\* control), also when no enqueue call has been made and none is made later,
\* so that the loop waits for the next request on an empty queue.  The wait
\* of lines 135-138 selects on d.production alone: the sender that arrives
\* while the loop waits there stays parked on control for as long as no
\* enqueue call is made.
C31_RegisterReturns ==
    (control # << >> /\ pc # "new" /\ EnqueueCalls = 0)
        ~> (control = << >> \/ cancelled)

-----------------------------------------------------------------------------
(* Callbacks that register callbacks (SpecNestLive) *)

\* SpecNest: producers, and RegisterOnProcessedCount calls of which some
\* pass a func that calls d.RegisterOnProcessedCount itself
InitNest == NewDispatcher(MaxEnqueue, MaxRegister)

NextNest ==
    \/ \E ci \in Announced : ReceiveHello(ci)
    \/ \E ci \in Announced : ReceiveOwnBlock(ci)
    \/ \E ci \in Announced : ReceiveGossipBlock(ci)
    \/ \E count \in 0..MaxCount : RegisterOnProcessedCount(count)
    \/ \E count \in 0..MaxCount : RegisterReentrantCb(count)
    \/ Start
    \/ LoopStep
    \/ SyncerReturns

SpecNest == InitNest /\ [][NextNest]_vars

\* The goroutine of the loop is scheduled whenever it can take a step, and
\* every HandleNewTipSet call returns
SpecNestLive == SpecNest /\ WF_vars(LoopStep) /\ WF_vars(SyncerReturns)

\* C32: the RegisterOnProcessedCount call a callback makes while
\* maybeFireCbs is calling it returns, and the loop goes on to the
\* cancellation check of its cycle.  control is unbuffered and its only
\* receiver is the select of lines 101-105 on the goroutine that is making
\* the send.
C32_NestedRegisterReturns == (cbSend # Nil) ~> (pc = "shutdown")

-----------------------------------------------------------------------------
(* Conservation of requests (SpecBP) *)

\* Number of occurrences of x in the sequence s
Count(s, x) == Cardinality({ i \in 1..Len(s) : s[i] = x })

\* The loop is between the first receive of the gather and the Push calls
Gathering == pc \in {"drainLen", "drain", "sort"}

\* The places a request whose enqueue call has completed can be in, with
\* the number of copies of r in each
Places(r) ==
    [ production |-> Count(production, r),
      stash      |-> IF last # Nil /\ Deref(last) = r THEN 1 ELSE 0,
      batch      |-> IF Gathering THEN Count(produced, r) ELSE 0,
      targetQ    |-> Count(targetQ.q, r),
      handling   |-> IF pc \in {"work", "syncing"} /\ syncReq = r THEN 1 ELSE 0,
      handled    |-> Cardinality({ i \in 1..(Len(calls) - inProgress) :
                                       calls[i].req = r }),
      dropped    |-> dropped[r] ]

\* C33: every request whose enqueue call has completed is in exactly one of
\* the production channel, the stash or the batch being gathered, the
\* TargetQueue, the syncer's hands, the calls that have returned, and the
\* requests Push dropped as duplicates of a resident Head: for each request
\* the copies in these places add up to the completed enqueue calls made
\* with it, and what the loop has popped is what the syncer has been given
\* or is about to be given.
C33_Conservation ==
    /\ \A r \in Requests :
           LET p == Places(r)
           IN  enqCount[r] - Count(sendq, r) =
                   p.production + p.stash + p.batch + p.targetQ
                       + p.handling + p.handled + p.dropped
    /\ Len(pops) = Len(calls) + (IF pc = "work" THEN 1 ELSE 0)
    /\ \A i \in 1..Len(calls) : calls[i].req = pops[i]

\* Copies of one request are at the same time buffered in production,
\* resident in the TargetQueue and dropped by Push, while the syncer handles
\* another request after a first call has returned
C33_Witness ==
    /\ pc = "syncing"
    /\ Len(calls) = 2
    /\ \E r \in Requests :
           /\ Places(r).production > 0
           /\ Places(r).targetQ > 0
           /\ Places(r).dropped > 0
           /\ Places(r).handling = 0

-----------------------------------------------------------------------------
(* The stash and the TargetQueue (Spec) *)

\* C34: while `last` holds a request the TargetQueue is empty, heap and
\* targetSet, and the loop is between the idle wait that set `last` and the
\* gather of the next cycle, or has stopped there.
C34_StashMeansEmptyQueue ==
    last # Nil =>
        /\ targetQ = NewTargetQueue
        /\ TQLen(targetQ) = 0
        /\ pc \in {"fire", "shutdown", "control", "production", "stopped"}

\* The loop has handled a request, found the queue empty afterwards, and
\* holds the request that woke it, on its way to the gather
C34_Witness ==
    /\ last # Nil
    /\ pc = "production"
    /\ Len(calls) = 1
    /\ inProgress = 0
    /\ syncReqCount = 1

-----------------------------------------------------------------------------
(* The callers after the loop has returned (SpecStop) *)

\* The chain info announced in SpecStop
Repeated == { ChainInfo(1, 2) }

\* SpecStop: more enqueue calls than the production channel holds,
\* RegisterOnProcessedCount(0, cb) calls and cancellation
InitStop == NewDispatcher(productionBufferSize + MaxExcess, MaxRegister)

NextStop ==
    \/ \E ci \in Repeated : ReceiveHello(ci)
    \/ \E ci \in Repeated : ReceiveOwnBlock(ci)
    \/ \E ci \in Repeated : ReceiveGossipBlock(ci)
    \/ RegisterOnProcessedCount(0)
    \/ Cancel
    \/ Start
    \/ LoopStep
    \/ SyncerReturns

SpecStop == InitStop /\ [][NextStop]_vars

\* C35: once the loop has returned on cancellation nothing receives from
\* production or control.  The enqueue calls that complete afterwards are
\* those whose request went into the free part of the buffer, at most
\* productionBufferSize; every other enqueue call made afterwards is parked
\* on the full channel; every RegisterOnProcessedCount call made afterwards
\* is parked on control; and the parked callers stay parked and the loop
\* stays stopped.
C35_NothingReadsAfterStop ==
    /\ [](pc = "stopped" =>
            LET s == Deref(stopSnap)
                completedSince == enqueued - s.enqueued
                parkedSince    == Len(sendq) - s.parked
            IN  /\ completedSince = Len(production) - s.buffered
                /\ completedSince <= productionBufferSize - s.buffered
                /\ completedSince <= productionBufferSize
                /\ parkedSince >= 0
                /\ parkedSince > 0 => Len(production) = productionBufferSize
                /\ EnqueueCalls = enqueued + Len(sendq)
                /\ Len(control) >= s.waiting
                /\ registered - s.registered = Len(control) - s.waiting)
    /\ [][ pc = "stopped" =>
               /\ pc' = "stopped"
               /\ IsPrefix(production, production')
               /\ IsPrefix(sendq, sendq')
               /\ IsPrefix(control, control')
               /\ UNCHANGED << targetQ, onProcessedCountCbs, last, syncReqCount,
                               fireLog, pops, calls >> ]_vars

\* After the loop returned with an empty buffer, productionBufferSize
\* enqueue calls have completed, a further one is parked, and a
\* RegisterOnProcessedCount call made after the return is parked too
C35_Witness ==
    /\ pc = "stopped"
    /\ Deref(stopSnap).buffered = 0
    /\ Deref(stopSnap).waiting = 0
    /\ enqueued - Deref(stopSnap).enqueued = productionBufferSize
    /\ Len(sendq) = 1
    /\ Len(control) = 1

====
